---- MODULE Spec2Model ----
(***************************************************************************)
(* Model of dk61-programmer.py: the DK61 keyboard programmer.              *)
(*                                                                         *)
(* The module models the packet codec (crc16, struct packing), the         *)
(* transport (DK61.sendCommand), the command layer (wipeoutLayer,          *)
(* commandCommonLayerSetKeyValues, commandLayerSetStaticLighting) and the  *)
(* orchestrator (setStaticColorLayers, setAllLayers) as run by main.       *)
(*                                                                         *)
(* Three specifications share the variables:                               *)
(*   Spec          a programming session as run by main                    *)
(*   SpecSend      one direct call of DK61.sendCommand                     *)
(*   SpecKeyValues one direct call of commandCommonLayerSetKeyValues       *)
(***************************************************************************)
EXTENDS Integers, Sequences, FiniteSets, TLC

VARIABLES
    keymap,       \* the keymap document read by checkKeymapFile
    pc,           \* position of the (single) thread of control
    hidDevice,    \* self.hidDevice: "none" | "open" | "closed"
    closes,       \* number of times the HID handle has been closed
    written,      \* what hidDevice.write has been given, in order (with the
                  \* layer name and the offset and length arguments the
                  \* frame was built for)
    unread,       \* the frames written (by position in written) whose
                  \* reply was not read: the read timed out, failed or
                  \* was not made
    last,         \* the most recent sendCommand call and how it ended
    err,          \* the exception propagating out of the with-block
    layerIdx,     \* index of the current item of the dict being iterated
    driverCodes,  \* driverColorCodes / driverKeycodes of the current layer
    data,         \* the logical buffer of commandLayerSetStaticLighting
    offset,       \* the running offset of the chunk loop
    counter,      \* driverKeycodesCounter / packetNumber
    args          \* the arguments of a direct call (SpecSend, SpecKeyValues)

vars == <<keymap, pc, hidDevice, closes, written, unread, last, err,
          layerIdx, driverCodes, data, offset, counter, args>>

(***************************************************************************)
(* Bounds of the model.                                                    *)
(***************************************************************************)
MaxLightLayers == 1
MaxKeyLayers == 2
MaxLayers == 2
MaxCodes == 29
MaxDataLen == 58
MaxDumpLen == 33
MaxLines == 4
MaxCalls == 2

(***************************************************************************)
(* Python integer operators on unbounded integers.                         *)
(***************************************************************************)
RECURSIVE xorBits(_, _, _)
xorBits(a, b, n) ==
    IF n = 0 THEN 0
    ELSE (((a % 2) + (b % 2)) % 2) + 2 * xorBits(a \div 2, b \div 2, n - 1)

\* a ^ b for bytes, tabulated
XorByte == [a \in 0..255 |-> [b \in 0..255 |-> xorBits(a, b, 8)]]

\* a ^ b for 0 <= a, b < 2^24
Xor(a, b) ==
    XorByte[a % 256][b % 256]
    + 256 * XorByte[(a \div 256) % 256][(b \div 256) % 256]
    + 65536 * XorByte[(a \div 65536) % 256][(b \div 65536) % 256]

(***************************************************************************)
(* Python integers that may not fit the model checker's integers (offsets  *)
(* beyond 2^31, 32-bit key codes, -1) are kept in two's complement: the    *)
(* little-endian bytes, and the byte that extends them (0, or 255 for a    *)
(* negative number).                                                       *)
(***************************************************************************)
RECURSIVE BytesOf(_)
BytesOf(n) == IF n = 0 THEN <<>> ELSE <<n % 256>> \o BytesOf(n \div 256)

\* a non-negative integer of the model as a Python integer
Wide(n) == [bytes |-> BytesOf(n), ext |-> 0]

MinusOne == [bytes |-> <<>>, ext |-> 255]

\* (value >> 8k) & 0xff
ByteAt(value, k) == IF k < Len(value.bytes) THEN value.bytes[k + 1] ELSE value.ext

\* value >> 8k
ShrBytes(value, k) ==
    [bytes |-> IF k >= Len(value.bytes) THEN <<>>
               ELSE [i \in 1..(Len(value.bytes) - k) |-> value.bytes[i + k]],
     ext |-> value.ext]

\* 0 <= value <= 255
FitsByte(value) ==
    /\ value.ext = 0
    /\ \A i \in 2..Len(value.bytes) : value.bytes[i] = 0

\* value & 0xffff
Low16(value) == ByteAt(value, 0) + 256 * ByteAt(value, 1)

\* int(text, 0) of "0x..." text, kept as its hexadecimal digits
RECURSIVE IntOfHex(_)
IntOfHex(digits) ==
    LET n == Len(digits)
    IN  IF n = 0 THEN <<>>
        ELSE IF n = 1 THEN <<digits[1]>>
        ELSE <<16 * digits[n - 1] + digits[n]>> \o IntOfHex(SubSeq(digits, 1, n - 2))

IntOf(digits) == [bytes |-> IntOfHex(digits), ext |-> 0]

Zeros(n) == [i \in 1..n |-> 0]

\* data[lo:hi] of a Python sequence (0-based, hi exclusive, clipped)
Slice(s, lo, hi) ==
    LET h == IF hi > Len(s) THEN Len(s) ELSE hi
    IN  IF lo >= h THEN <<>> ELSE [i \in 1..(h - lo) |-> s[lo + i]]

(***************************************************************************)
(* Checksum engine.                                                        *)
(***************************************************************************)
RECURSIVE crc16Bits(_, _, _)
crc16Bits(crc, poly, n) ==
    IF n = 0 THEN crc
    ELSE LET s == crc * 2
             t == IF (s \div 65536) % 2 = 1 THEN Xor(s, poly) % 65536 ELSE s
         IN  IF t >= 0 THEN crc16Bits(t, poly, n - 1) ELSE 0

\* the eight shift steps of one byte, tabulated: the loop is linear over
\* XOR, so the low byte of crc is shifted out unchanged and the high byte,
\* XORed with the data byte, contributes ShiftTable
Polynomials == {4129, 32773}

ShiftTable == [poly \in Polynomials |-> [b \in 0..255 |-> crc16Bits(b * 256, poly, 8)]]

crc16Byte(crc, b, poly) ==
    Xor((crc % 256) * 256, ShiftTable[poly][XorByte[crc \div 256][b]])

RECURSIVE crc16From(_, _, _, _)
crc16From(bytes, i, crc, poly) ==
    IF i > Len(bytes) THEN crc
    ELSE LET c == crc16Byte(crc, bytes[i], poly)
         IN  IF c >= 0 THEN crc16From(bytes, i + 1, c, poly) ELSE 0

crc16(bytes, poly, iv, xorf) == Xor(crc16From(bytes, 1, iv, poly) % 65536, xorf)

crc16_usb(bytes) == crc16(bytes, 32773, 65535, 65535)

mycrc16(bytes) == crc16(bytes, 4129, 65535, 0)

(***************************************************************************)
(* Packet codec: PacketStruct = struct.Struct("<BBHBBH56s").               *)
(* A packet tuple is a record with the seven fields in struct order; the   *)
(* fields are named f1..f7 because CommandPacket and ReplyPacket name them *)
(* differently.                                                            *)
(***************************************************************************)
PacketTuple(a, b, c, d, e, f, g) ==
    [f1 |-> a, f2 |-> b, f3 |-> c, f4 |-> d, f5 |-> e, f6 |-> f, f7 |-> g]

\* struct.pack raises struct.error unless every integer fits its format
PackOk(t) ==
    /\ t.f1 \in 0..255
    /\ t.f2 \in 0..255
    /\ t.f3 \in 0..65535
    /\ FitsByte(t.f4)
    /\ t.f5 \in 0..255
    /\ t.f6 \in 0..65535

\* the "56s" format: cut to 56 bytes, pad with zero bytes
Pack56s(bytes) == [i \in 1..56 |-> IF i <= Len(bytes) THEN bytes[i] ELSE 0]

_pack(t) ==
    <<t.f1, t.f2, t.f3 % 256, t.f3 \div 256, ByteAt(t.f4, 0), t.f5,
      t.f6 % 256, t.f6 \div 256>> \o Pack56s(t.f7)

\* variant: the 16-bit fields are read big-endian
_unpackBigEndian(buf) ==
    PacketTuple(buf[1], buf[2], 256 * buf[3] + buf[4], Wide(buf[5]), buf[6],
                256 * buf[7] + buf[8], Slice(buf, 8, 64))

_unpack(buf) ==
    PacketTuple(buf[1], buf[2], buf[3] + 256 * buf[4], Wide(buf[5]), buf[6],
                buf[7] + 256 * buf[8], Slice(buf, 8, 64))

_calculate_checksum(t) == mycrc16(_pack([t EXCEPT !.f6 = 0]))

\* variant: the checksum is computed without zeroing the checksum field
\* (a field outside its format cannot be packed and is zeroed)
_replace_checksumInPlace(t) ==
    [t EXCEPT !.f6 = mycrc16(_pack(IF t.f6 \in 0..65535 THEN t ELSE [t EXCEPT !.f6 = 0]))]

_replace_checksum(t) == [t EXCEPT !.f6 = _calculate_checksum(t)]

_checksum_ok(t) == t.f6 = _calculate_checksum(t)

(***************************************************************************)
(* Enumerations of the protocol.                                           *)
(***************************************************************************)
OpCodes ==
    [Info |-> 1, RestartKeyboard |-> 3, SetLayer |-> 11, Ping |-> 12,
     DriverMacro |-> 21, DriverLayerSetKeyValues |-> 22,
     DriverLayerSetConfig |-> 23, LayerResetDataType |-> 33,
     LayerSetKeyValues |-> 34, LayerSetMacros |-> 37,
     LayerSetKeyPressLightingEffect |-> 38, LayerSetLightValues |-> 39,
     LayerFnSetKeyValues |-> 49]

KeyboardLayer ==
    [Invalid |-> 0, Base |-> 1, Layer1 |-> 2, Layer2 |-> 3, Layer3 |-> 4,
     Driver |-> 5]

KeyboardLayerDataType ==
    [Invalid |-> 0, KeySet |-> 1, LEData |-> 3, Macros |-> 4,
     KeyPressLightingEffect |-> 5, Lighting |-> 6, FnKeySet |-> 7]

layerCodes ==
    [Layer1   |-> [code |-> KeyboardLayer.Layer1, isFnLayer |-> FALSE],
     Layer2   |-> [code |-> KeyboardLayer.Layer2, isFnLayer |-> FALSE],
     Layer3   |-> [code |-> KeyboardLayer.Layer3, isFnLayer |-> FALSE],
     FnLayer1 |-> [code |-> KeyboardLayer.Layer1, isFnLayer |-> TRUE],
     FnLayer2 |-> [code |-> KeyboardLayer.Layer2, isFnLayer |-> TRUE],
     FnLayer3 |-> [code |-> KeyboardLayer.Layer3, isFnLayer |-> TRUE]]

(***************************************************************************)
(* The HID device as seen by one sendCommand call: the write fails, or the *)
(* read times out (hid returns no bytes), or the read fails, or a 64-byte  *)
(* reply is read, of which the model keeps the command and result bytes.   *)
(***************************************************************************)
NoReply == [cmd |-> -1, result |-> -1]

\* a command byte other than the one sent: a stale reset reply, else zero
OtherCmd(cmd) == IF cmd = OpCodes.LayerResetDataType THEN 0 ELSE OpCodes.LayerResetDataType

DeviceOutcomes(cmd) ==
    {[kind |-> k, cmd |-> -1, result |-> -1] : k \in {"writefail", "timeout", "readfail"}}
    \cup {[kind |-> "reply", cmd |-> cmd, result |-> r] : r \in {0, 1}}
    \cup {[kind |-> "reply", cmd |-> OtherCmd(cmd), result |-> 1]}

\* ReplyPacket._unpack(self.hidDevice.read(0x40, timeout=replytimeout)):
\* unpacking fewer than 64 bytes raises struct.error
\* variant: a read that times out is taken for an empty reply
ReadReplyEmpty(dev) ==
    IF dev.kind = "reply"
    THEN [raised |-> "none", reply |-> [cmd |-> dev.cmd, result |-> dev.result]]
    ELSE IF dev.kind = "timeout"
    THEN [raised |-> "none", reply |-> [cmd |-> 0, result |-> 0]]
    ELSE [raised |-> "HIDException", reply |-> NoReply]

ReadReply(dev) ==
    IF dev.kind = "reply"
    THEN [raised |-> "none", reply |-> [cmd |-> dev.cmd, result |-> dev.result]]
    ELSE IF dev.kind = "timeout"
    THEN [raised |-> "struct.error", reply |-> NoReply]
    ELSE [raised |-> "HIDException", reply |-> NoReply]

(***************************************************************************)
(* DK61.sendCommand.  The result is the exception raised ("none" when the  *)
(* call returns), the frame handed to hidDevice.write (if any), the reply  *)
(* returned, and whether a reply was read from the device.                 *)
(***************************************************************************)
\* offset & 0xff000000
OffsetCheck(off) == ByteAt(off, 3) # 0

CommandPacketOf(cmd, subcmd, off, length, dat, smallOffset) ==
    LET payload == IF Len(dat) = 0 THEN Zeros(56) ELSE dat
    IN  IF smallOffset
        THEN PacketTuple(cmd, subcmd, Low16(off), Wide(length), 0, 0, payload)
        ELSE PacketTuple(cmd, subcmd, Low16(off), ShrBytes(off, 2), length, 0, payload)

\* lines 293-301: the checks and the packet; the frame is the 64 bytes
CommandFrame(cmd, subcmd, off, length, dat, smallOffset) ==
    LET tuple == CommandPacketOf(cmd, subcmd, off, length, dat, smallOffset)
    IN  IF OffsetCheck(off)
        THEN [raised |-> "ValueError", frame |-> <<>>]
        ELSE IF ~PackOk(tuple)
        THEN [raised |-> "struct.error", frame |-> <<>>]
        ELSE [raised |-> "none", frame |-> <<_pack(_replace_checksum(tuple))>>]

\* lines 305-312, given the outcome of the packet construction: the
\* exception raised ("none" when the call returns), whether the frame was
\* written, the reply returned, and whether a reply was read
sendCommand(built, getreply, dev) ==
    LET none == [raised |-> "none", wrote |-> FALSE, reply |-> NoReply,
                 gotReply |-> FALSE, kind |-> "notsent"]
    IN  IF built.raised # "none"
        THEN [none EXCEPT !.raised = built.raised]
        ELSE IF hidDevice = "none"
        THEN [none EXCEPT !.raised = "AttributeError"]
        ELSE IF dev.kind = "writefail"
        THEN [none EXCEPT !.raised = "HIDException", !.kind = "writefail"]
        ELSE IF ~getreply
        THEN [none EXCEPT !.wrote = TRUE, !.kind = "noread"]
        ELSE [raised |-> ReadReply(dev).raised,
              wrote |-> TRUE,
              reply |-> ReadReply(dev).reply,
              gotReply |-> dev.kind = "reply",
              kind |-> dev.kind]

\* the record kept in the variable last: the operation, the layer name, the
\* command byte and offset argument of the call, what the device did, what
\* sendCommand raised and returned, and what the operation raised
CallRecord(op, layer, cmd, off, r, opRaised) ==
    [op |-> op, layer |-> layer, cmd |-> cmd, at |-> off, wrote |-> r.wrote,
     kind |-> r.kind, raised |-> r.raised, reply |-> r.reply,
     gotReply |-> r.gotReply, opRaised |-> opRaised]

NoCall ==
    [op |-> "none", layer |-> "", cmd |-> -1, at |-> -1, wrote |-> FALSE,
     kind |-> "notsent", raised |-> "none", reply |-> NoReply,
     gotReply |-> FALSE, opRaised |-> "none"]

\* hidDevice.write either takes the frame or fails
WriteOutcomes == {"ok", "writefail"}

\* written after a call whose write ended as w, with the layer name and
\* the offset and length arguments the frame was built for
Written(built, w, layer, off, length) ==
    IF built.raised = "none" /\ hidDevice # "none" /\ w = "ok"
    THEN Append(written, [frame |-> built.frame[1], layer |-> layer, at |-> off,
                          length |-> length])
    ELSE written

\* the device outcomes that go with the write outcome w
Outcomes(cmd, w) == {dev \in DeviceOutcomes(cmd) : (dev.kind = "writefail") <=> (w = "writefail")}

\* the frames without a read reply after a call
Unread(r) == IF r.wrote /\ ~r.gotReply THEN unread \cup {Len(written) + 1} ELSE unread

(***************************************************************************)
(* keyboard-mappings.json as loaded by loadKeyboardMappings: the physical  *)
(* key table (in order, each key with its LED index) and the key-name to   *)
(* code table.  Codes and colours are "0x..." text in the documents; the   *)
(* model keeps the hexadecimal digits.                                     *)
(***************************************************************************)
keyboardKeys ==
    <<[KeyName |-> "Esc",   LocationLED |-> 0],
      [KeyName |-> "N1",    LocationLED |-> 1],
      [KeyName |-> "N2",    LocationLED |-> 2],
      [KeyName |-> "Tab",   LocationLED |-> 22],
      [KeyName |-> "Q",     LocationLED |-> 23],
      [KeyName |-> "W",     LocationLED |-> 24],
      [KeyName |-> "Caps",  LocationLED |-> 44],
      [KeyName |-> "A",     LocationLED |-> 45],
      [KeyName |-> "S",     LocationLED |-> 46],
      [KeyName |-> "D",     LocationLED |-> 47],
      [KeyName |-> "Shift", LocationLED |-> 66],
      [KeyName |-> "Z",     LocationLED |-> 67],
      [KeyName |-> "X",     LocationLED |-> 68],
      [KeyName |-> "Ctrl",  LocationLED |-> 88],
      [KeyName |-> "Space", LocationLED |-> 91],
      [KeyName |-> "Fn",    LocationLED |-> 131]>>

mapKeycodes ==
    [UnusedKey |-> <<15, 15, 15, 15, 15, 15, 15, 15>>,
     Esc   |-> <<0, 2, 0, 0, 2, 9, 0, 0>>,
     Tab   |-> <<0, 2, 0, 0, 2, 11, 0, 0>>,
     Caps  |-> <<0, 2, 0, 0, 3, 9, 0, 0>>,
     Shift |-> <<0, 2, 0, 0, 0, 0, 0, 2>>,
     Ctrl  |-> <<0, 2, 0, 0, 0, 0, 0, 1>>,
     Space |-> <<0, 2, 0, 0, 2, 12, 0, 0>>,
     Fn    |-> <<0, 10, 0, 1, 0, 0, 0, 1>>,
     A |-> <<0, 2, 0, 0, 0, 4, 0, 0>>,
     D |-> <<0, 2, 0, 0, 0, 7, 0, 0>>,
     Q |-> <<0, 2, 0, 0, 1, 4, 0, 0>>,
     S |-> <<0, 2, 0, 0, 1, 6, 0, 0>>,
     W |-> <<0, 2, 0, 0, 1, 10, 0, 0>>,
     X |-> <<0, 2, 0, 0, 1, 11, 0, 0>>,
     Z |-> <<0, 2, 0, 0, 1, 13, 0, 0>>,
     Up |-> <<0, 2, 0, 0, 5, 2, 0, 0>>,
     N1 |-> <<0, 2, 0, 0, 1, 14, 0, 0>>,
     N2 |-> <<0, 2, 0, 0, 1, 15, 0, 0>>,
     VolumeUp |-> <<0, 3, 0, 0, 0, 0, 14, 9>>]

(***************************************************************************)
(* DK61.getColorDefinition.  None is the name "None", which no colour      *)
(* definition carries.                                                     *)
(***************************************************************************)
\* variant: a name without a definition is black, whatever the default
getColorDefinitionNoDefault(colorDefinitions, colorName) ==
    IF colorName # "None" /\ colorName \in DOMAIN colorDefinitions
    THEN IntOf(colorDefinitions[colorName])
    ELSE Wide(0)

getColorDefinition(colorDefinitions, colorName) ==
    IF colorName # "None" /\ colorName \in DOMAIN colorDefinitions
    THEN IntOf(colorDefinitions[colorName])
    ELSE IF "default" \in DOMAIN colorDefinitions
    THEN IntOf(colorDefinitions["default"])
    ELSE Wide(0)

\* lines 358-369 of setStaticColorLayers: the colour table of a layer
RECURSIVE ColorOverrides(_, _, _, _)
ColorOverrides(codes, colorDefinitions, layerColorMap, k) ==
    IF k > Len(keyboardKeys) THEN codes
    ELSE LET key == keyboardKeys[k]
             next == IF key.KeyName \in DOMAIN layerColorMap
                     THEN [codes EXCEPT ![key.LocationLED + 1] =
                              getColorDefinition(colorDefinitions, layerColorMap[key.KeyName])]
                     ELSE codes
         IN  IF Len(next) = Len(codes)
             THEN ColorOverrides(next, colorDefinitions, layerColorMap, k + 1)
             ELSE next

numKeys == 132

driverColorCodesOf(colorDefinitions, layerColorMap) ==
    LET defaultColorName == IF "default" \in DOMAIN layerColorMap
                            THEN layerColorMap["default"] ELSE "None"
        defaultColor == getColorDefinition(colorDefinitions, defaultColorName)
    IN  ColorOverrides([i \in 1..numKeys |-> defaultColor], colorDefinitions,
                       layerColorMap, 1)

(***************************************************************************)
(* Lines 321-336 of setAllLayers: validation of the key names of a layer   *)
(* and the key codes of the layer.                                         *)
(***************************************************************************)
\* the loop of lines 321-325: TRUE when a LookupError is raised
KeyNamesWrong(layerKeymap) ==
    \E srcKeyName \in DOMAIN layerKeymap :
        \/ srcKeyName \notin DOMAIN mapKeycodes
        \/ layerKeymap[srcKeyName] \notin DOMAIN mapKeycodes

\* variant: a mapped key gets its own code, not the code of its destination
driverKeycodesOfSource(layerKeymap) ==
    LET unusedKeyCode == IntOf(mapKeycodes["UnusedKey"])
    IN  [k \in 1..Len(keyboardKeys) |->
            IF keyboardKeys[k].KeyName \in DOMAIN layerKeymap
            THEN IntOf(mapKeycodes[keyboardKeys[k].KeyName])
            ELSE unusedKeyCode]

driverKeycodesOf(layerKeymap) ==
    LET unusedKeyCode == IntOf(mapKeycodes["UnusedKey"])
    IN  [k \in 1..Len(keyboardKeys) |->
            IF keyboardKeys[k].KeyName \in DOMAIN layerKeymap
            THEN IntOf(mapKeycodes[layerKeymap[keyboardKeys[k].KeyName]])
            ELSE unusedKeyCode]

(***************************************************************************)
(* write32Bits, write16Bits and the logical buffer of                      *)
(* commandLayerSetStaticLighting (lines 391-425).  Positions are the       *)
(* 0-based positions of the code; sequences are 1-based.                   *)
(***************************************************************************)
\* variant: most significant byte first
write32BitsBE(buf, position, value) ==
    [buf EXCEPT ![position + 1] = ByteAt(value, 3),
                ![position + 2] = ByteAt(value, 2),
                ![position + 3] = ByteAt(value, 1),
                ![position + 4] = ByteAt(value, 0)]

write32Bits(buf, position, value) ==
    [buf EXCEPT ![position + 1] = ByteAt(value, 0),
                ![position + 2] = ByteAt(value, 1),
                ![position + 3] = ByteAt(value, 2),
                ![position + 4] = ByteAt(value, 3)]

\* variant: most significant byte first
write16BitsBE(buf, position, value) ==
    [buf EXCEPT ![position + 1] = ByteAt(value, 1),
                ![position + 2] = ByteAt(value, 0)]

write16Bits(buf, position, value) ==
    [buf EXCEPT ![position + 1] = ByteAt(value, 0),
                ![position + 2] = ByteAt(value, 1)]

maxNumberOfEffects == 32
effectHeaderSize == 16
paramHeaderSize == 4
maxChunkSize == 56
totalEffectsHeaderSize == maxNumberOfEffects * effectHeaderSize
driverColorCodesSize == numKeys * 4
dataBufferSize == totalEffectsHeaderSize + (paramHeaderSize + driverColorCodesSize)

\* lines 404-407
StaticHeader(buf) ==
    write32Bits(write32Bits(write32Bits(write32Bits(buf,
        0, Wide(totalEffectsHeaderSize)), 4, Wide(1)), 8, Wide(0)), 12, Wide(0))

\* lines 410-414
RECURSIVE UnusedEffects(_, _)
UnusedEffects(buf, i) ==
    IF i >= maxNumberOfEffects THEN buf
    ELSE LET next == write32Bits(write32Bits(write32Bits(write32Bits(buf,
                         i * effectHeaderSize + 0, MinusOne),
                         i * effectHeaderSize + 4, MinusOne),
                         i * effectHeaderSize + 8, MinusOne),
                         i * effectHeaderSize + 12, MinusOne)
         IN  IF Len(next) = Len(buf) THEN UnusedEffects(next, i + 1) ELSE next

\* lines 418-420
typeStatic == 0

LocalHeader(buf) ==
    write16Bits(write16Bits(buf, totalEffectsHeaderSize, Wide(typeStatic)),
                totalEffectsHeaderSize + 2, Wide(driverColorCodesSize))

\* lines 422-425: passes lo .. hi-1 of the loop (0-based), in order; the
\* pass of colour k writes at colorCodePosition = start + 4k
RECURSIVE ColorCodes(_, _, _, _)
ColorCodes(buf, driverColorCodes, lo, hi) ==
    LET colorCodePosition == totalEffectsHeaderSize + paramHeaderSize + 4 * lo
    IN  IF lo >= hi THEN buf
        ELSE IF hi = lo + 1
        THEN write32Bits(buf, colorCodePosition, driverColorCodes[lo + 1])
        ELSE LET mid == (lo + hi) \div 2
                 first == ColorCodes(buf, driverColorCodes, lo, mid)
             IN  IF Len(first) = Len(buf)
                 THEN ColorCodes(first, driverColorCodes, mid, hi)
                 ELSE first

StaticLightingBuffer(driverColorCodes) ==
    ColorCodes(LocalHeader(UnusedEffects(StaticHeader(Zeros(dataBufferSize)), 1)),
               driverColorCodes, 0, Len(driverColorCodes))

\* variant: the chunk is never shortened
MinIgnoringRest(a, b) == a

Min(a, b) == IF a < b THEN a ELSE b

(***************************************************************************)
(* Command layer.                                                          *)
(***************************************************************************)
\* the arguments of the sendCommand call of wipeoutLayer: the data type is
\* the third positional argument (offset), data is None, the seventh (True)
\* is verbose, the eighth is replytimeout, and smallOffset keeps its default
wipeoutLayerCall(layerCode, dataType) ==
    [cmd |-> OpCodes.LayerResetDataType, subcmd |-> layerCode,
     offset |-> Wide(dataType), length |-> 0, data |-> <<>>, getreply |-> TRUE,
     verbose |-> TRUE, replytimeout |-> 1000, smallOffset |-> FALSE]

\* variant: the data type travels as a one-byte payload in small-offset mode
wipeoutLayerFrameInPayload(layerCode, dataType) ==
    CommandFrame(OpCodes.LayerResetDataType, layerCode, Wide(0), 1, <<dataType>>, TRUE)

wipeoutLayerFrame(layerCode, dataType) ==
    LET call == wipeoutLayerCall(layerCode, dataType)
    IN  CommandFrame(call.cmd, call.subcmd, call.offset, call.length, call.data,
                     call.smallOffset)

\* variant: wipeoutLayer ignores what sendCommand raises
wipeoutLayerIgnores(r) == "none"

\* what wipeoutLayer raises: whatever sendCommand raises; the reply is dropped
wipeoutLayerRaises(r) == r.raised

\* variant: a chunk that failed or was answered wrongly is passed over
ChunkRaisesNothing(r, opcode) == "none"

\* lines 435-438 and 455-458: what a chunk of a transfer raises
ChunkRaises(r, opcode) ==
    IF r.raised # "none" THEN r.raised
    ELSE IF r.reply.cmd # opcode THEN "Error"
    ELSE "none"

\* variant: no try/except around the lighting reset
TryExceptReraise(raised) == raised

\* lines 374-377: try: wipeoutLayer(...) except: (ignored)
TryExcept(raised) == "none"

keyBufferSize == 14 * 4

\* lines 448-454: one key buffer filled from the key codes
RECURSIVE FillKeyBuffer(_, _, _, _)
FillKeyBuffer(buf, driverKeycodes, keyBufferCounter, driverKeycodesCounter) ==
    IF keyBufferCounter < keyBufferSize /\ driverKeycodesCounter < Len(driverKeycodes)
    THEN LET next == write32Bits(buf, keyBufferCounter,
                                 driverKeycodes[driverKeycodesCounter + 1])
         IN  IF Len(next) = Len(buf)
             THEN FillKeyBuffer(next, driverKeycodes, keyBufferCounter + 4,
                                driverKeycodesCounter + 1)
             ELSE [data |-> next, keyBufferCounter |-> keyBufferCounter,
                   driverKeycodesCounter |-> driverKeycodesCounter]
    ELSE [data |-> buf, keyBufferCounter |-> keyBufferCounter,
          driverKeycodesCounter |-> driverKeycodesCounter]

(***************************************************************************)
(* The programming session of main:                                        *)
(*     with DK61() as dk61:                                                *)
(*         dk61.setStaticColorLayers(keymap)                               *)
(*         dk61.setAllLayers(keymap)                                       *)
(* A dict of the keymap document is the sequence of its items in order.    *)
(***************************************************************************)
ColorDefinitionChoices ==
    {[default |-> <<1, 0, 1, 0, 1, 0>>, red |-> <<15, 15, 0, 0, 0, 0>>,
      blue |-> <<0, 0, 0, 0, 15, 15>>],
     [red |-> <<15, 15, 0, 0, 0, 0>>, blue |-> <<0, 0, 0, 0, 15, 15>>]}

StaticColorLayerChoices ==
    {[name |-> "Layer1",
      map |-> [default |-> "red", A |-> "blue", Q |-> "nosuch", Esc |-> "default"]],
     [name |-> "FnLayer2", map |-> [Fn |-> "blue"]],
     [name |-> "Base", map |-> [default |-> "blue"]]}

KeyLayerChoices ==
    {[name |-> "Layer1",   map |-> [A |-> "Up", Caps |-> "Ctrl"]],
     [name |-> "FnLayer1", map |-> [Esc |-> "VolumeUp"]],
     [name |-> "Layer1",   map |-> [A |-> "Bogus"]],
     [name |-> "FnLayer1", map |-> [Bogus |-> "A"]],
     [name |-> "Base",     map |-> [A |-> "Up"]]}

\* the sequences of at most n items of S with different names
RECURSIVE Dicts(_, _)
Dicts(S, n) ==
    IF n = 0 THEN {<<>>}
    ELSE LET shorter == Dicts(S, n - 1)
         IN  shorter \cup
             {Append(d, x) : d \in {e \in shorter : Len(e) = n - 1},
                             x \in S} 

DistinctNames(d) == \A i, j \in 1..Len(d) : i # j => d[i].name # d[j].name

\* the colour definitions lack a default when FnLayer2 is lit
ColorDefinitionsFor(l) ==
    CHOOSE c \in ColorDefinitionChoices :
        ("default" \in DOMAIN c) <=> (\A i \in 1..Len(l) : l[i].name # "FnLayer2")

\* the keymap documents of the model: at most MaxLayers layer entries in all
Keymaps ==
    LET lights == {d \in Dicts(StaticColorLayerChoices, MaxLightLayers) : DistinctNames(d)}
        keys == {d \in Dicts(KeyLayerChoices, MaxKeyLayers) : DistinctNames(d)}
    IN  {[colorDefinitions |-> ColorDefinitionsFor(p[1]), staticColorLayers |-> p[1],
          keyLayers |-> p[2]] :
            p \in {q \in lights \X keys : Len(q[1]) + Len(q[2]) <= MaxLayers}}

Init ==
    /\ keymap \in Keymaps
    /\ pc = "__enter__"
    /\ hidDevice \in {"open", "none"}
    /\ closes = 0
    /\ written = <<>>
    /\ unread = {}
    /\ last = NoCall
    /\ err = "none"
    /\ layerIdx = 0
    /\ driverCodes = <<>>
    /\ data = <<>>
    /\ offset = 0
    /\ counter = 0
    /\ args = [entry |-> "main"]

\* where an exception raised in the body takes control
Raised == IF args.entry = "main" THEN "__exit__" ELSE "done"

Enter ==
    /\ pc = "__enter__"
    /\ pc' = "setStaticColorLayers"
    /\ layerIdx' = 1
    /\ UNCHANGED <<keymap, hidDevice, closes, written, unread, last, err,
                   driverCodes, data, offset, counter, args>>

\* one pass of the loop of setStaticColorLayers up to the layer code lookup
setStaticColorLayers ==
    /\ pc = "setStaticColorLayers"
    /\ IF layerIdx > Len(keymap.staticColorLayers)
       THEN /\ pc' = "setAllLayers"
            /\ layerIdx' = 1
            /\ UNCHANGED <<err, driverCodes>>
       ELSE LET layer == keymap.staticColorLayers[layerIdx]
            IN  /\ driverCodes' = driverColorCodesOf(keymap.colorDefinitions, layer.map)
                /\ layerIdx' = layerIdx
                /\ IF layer.name \in DOMAIN layerCodes
                   THEN pc' = "wipeoutLayerLighting" /\ err' = err
                   ELSE pc' = Raised /\ err' = "KeyError"
    /\ UNCHANGED <<keymap, hidDevice, closes, written, unread, last, data,
                   offset, counter, args>>

\* lines 374-377, and lines 391-430 of commandLayerSetStaticLighting
wipeoutLayerLighting ==
    /\ pc = "wipeoutLayerLighting"
    /\ LET layer == keymap.staticColorLayers[layerIdx]
           builder == wipeoutLayerFrame(layerCodes[layer.name].code,
                                      KeyboardLayerDataType.Lighting)
       IN  \E built \in {builder} : \E w \in WriteOutcomes :
           /\ written' = Written(built, w, layer.name, KeyboardLayerDataType.Lighting, 0)
           /\ \E dev \in Outcomes(OpCodes.LayerResetDataType, w) :
              LET r == sendCommand(built, TRUE, dev)
                  e == TryExcept(wipeoutLayerRaises(r))
              IN  /\ unread' = Unread(r)
                  /\ last' = CallRecord("wipeoutLayer", layer.name,
                                        OpCodes.LayerResetDataType,
                                        KeyboardLayerDataType.Lighting, r,
                                        wipeoutLayerRaises(r))
                  /\ IF e # "none"
                     THEN pc' = Raised /\ err' = e /\ UNCHANGED <<data, offset, counter>>
                     ELSE /\ pc' = "commandLayerSetStaticLighting"
                          /\ err' = err
                          /\ \E buf \in {StaticLightingBuffer(driverCodes)} : data' = buf
                          /\ offset' = 0
                          /\ counter' = 0
    /\ UNCHANGED <<keymap, hidDevice, closes, layerIdx, driverCodes, args>>

\* one pass of the loop of lines 431-440
commandLayerSetStaticLighting ==
    /\ pc = "commandLayerSetStaticLighting"
    /\ offset < dataBufferSize
    /\ LET layer == keymap.staticColorLayers[layerIdx]
           chunkSize == Min(maxChunkSize, dataBufferSize - offset)
           packetData == Slice(data, offset, offset + chunkSize)
           builder == CommandFrame(OpCodes.LayerSetLightValues, layerCodes[layer.name].code,
                                 Wide(offset), chunkSize, packetData, FALSE)
       IN  \E built \in {builder} : \E w \in WriteOutcomes :
           /\ written' = Written(built, w, layer.name, offset, chunkSize)
           /\ \E dev \in Outcomes(OpCodes.LayerSetLightValues, w) :
              LET r == sendCommand(built, TRUE, dev)
                  e == ChunkRaises(r, OpCodes.LayerSetLightValues)
              IN  /\ unread' = Unread(r)
                  /\ last' = CallRecord("commandLayerSetStaticLighting", layer.name,
                                        OpCodes.LayerSetLightValues, offset, r, e)
                  /\ IF e # "none"
                     THEN pc' = Raised /\ err' = e /\ UNCHANGED <<offset, counter, layerIdx>>
                     ELSE /\ err' = err
                          /\ offset' = offset + chunkSize
                          /\ counter' = counter + 1
                          /\ IF offset + chunkSize < dataBufferSize
                             THEN pc' = pc /\ layerIdx' = layerIdx
                             ELSE pc' = "setStaticColorLayers" /\ layerIdx' = layerIdx + 1
    /\ UNCHANGED <<keymap, hidDevice, closes, driverCodes, data, args>>

\* one pass of the loop of setAllLayers up to the layer code lookup
setAllLayers ==
    /\ pc = "setAllLayers"
    /\ IF layerIdx > Len(keymap.keyLayers)
       THEN pc' = "__exit__" /\ UNCHANGED <<err, driverCodes>>
       ELSE LET layer == keymap.keyLayers[layerIdx]
            IN  IF KeyNamesWrong(layer.map)
                THEN pc' = Raised /\ err' = "LookupError" /\ UNCHANGED driverCodes
                ELSE /\ driverCodes' = driverKeycodesOf(layer.map)
                     /\ IF layer.name \in DOMAIN layerCodes
                        THEN pc' = "wipeoutLayerKeys" /\ err' = err
                        ELSE pc' = Raised /\ err' = "KeyError"
    /\ UNCHANGED <<keymap, hidDevice, closes, written, unread, last, layerIdx,
                   data, offset, counter, args>>

\* lines 340-341 and 343-344, and lines 443-445
wipeoutLayerKeys ==
    /\ pc = "wipeoutLayerKeys"
    /\ LET layer == keymap.keyLayers[layerIdx]
           dataType == IF layerCodes[layer.name].isFnLayer
                       THEN KeyboardLayerDataType.FnKeySet
                       ELSE KeyboardLayerDataType.KeySet
           builder == wipeoutLayerFrame(layerCodes[layer.name].code, dataType)
       IN  \E built \in {builder} : \E w \in WriteOutcomes :
           /\ written' = Written(built, w, layer.name, dataType, 0)
           /\ \E dev \in Outcomes(OpCodes.LayerResetDataType, w) :
              LET r == sendCommand(built, TRUE, dev)
                  e == wipeoutLayerRaises(r)
              IN  /\ unread' = Unread(r)
                  /\ last' = CallRecord("wipeoutLayer", layer.name,
                                        OpCodes.LayerResetDataType, dataType, r, e)
                  /\ IF e # "none"
                     THEN pc' = Raised /\ err' = e /\ UNCHANGED <<offset, counter>>
                     ELSE /\ pc' = "commandCommonLayerSetKeyValues"
                          /\ err' = err
                          /\ offset' = 0
                          /\ counter' = 0
    /\ UNCHANGED <<keymap, hidDevice, closes, layerIdx, driverCodes, data, args>>

\* variant: every layer is programmed with the opcode of the non-Fn layers
KeyValuesOpcodeNeverFn ==
    IF args.entry # "main" THEN args.opcode ELSE OpCodes.LayerSetKeyValues

\* the opcode and layer code of the running commandCommonLayerSetKeyValues
KeyValuesOpcode ==
    IF args.entry # "main" THEN args.opcode
    ELSE IF layerCodes[keymap.keyLayers[layerIdx].name].isFnLayer
    THEN OpCodes.LayerFnSetKeyValues
    ELSE OpCodes.LayerSetKeyValues

KeyValuesLayerCode ==
    IF args.entry # "main" THEN args.layerCode
    ELSE layerCodes[keymap.keyLayers[layerIdx].name].code

KeyValuesLayerName ==
    IF args.entry # "main" THEN "" ELSE keymap.keyLayers[layerIdx].name

\* one pass of the loop of lines 446-459, or the return when it ends
commandCommonLayerSetKeyValues ==
    /\ pc = "commandCommonLayerSetKeyValues"
    /\ IF counter < Len(driverCodes)
       THEN LET filled == FillKeyBuffer(Zeros(keyBufferSize), driverCodes, 0, counter)
                builder == CommandFrame(KeyValuesOpcode, KeyValuesLayerCode, Wide(offset),
                                      filled.keyBufferCounter, filled.data, TRUE)
            IN  \E built \in {builder} : \E w \in WriteOutcomes :
                /\ written' = Written(built, w, KeyValuesLayerName, offset, filled.keyBufferCounter)
                /\ \E dev \in Outcomes(KeyValuesOpcode, w) :
                   LET r == sendCommand(built, TRUE, dev)
                       e == ChunkRaises(r, KeyValuesOpcode)
                   IN  /\ unread' = Unread(r)
                       /\ last' = CallRecord("commandCommonLayerSetKeyValues",
                                             KeyValuesLayerName, KeyValuesOpcode,
                                             offset, r, e)
                       /\ data' = filled.data
                       /\ counter' = filled.driverKeycodesCounter
                       /\ layerIdx' = layerIdx
                       /\ IF e # "none"
                          THEN pc' = Raised /\ err' = e /\ offset' = offset
                          ELSE pc' = pc /\ err' = err
                               /\ offset' = offset + filled.keyBufferCounter
       ELSE /\ IF args.entry = "main"
               THEN pc' = "setAllLayers" /\ layerIdx' = layerIdx + 1
               ELSE pc' = "done" /\ layerIdx' = layerIdx
            /\ UNCHANGED <<written, unread, last, err, data, offset, counter>>
    /\ UNCHANGED <<keymap, hidDevice, closes, driverCodes, args>>

\* variant: the handle is closed only when no exception is propagating
ExitOnSuccess ==
    /\ pc = "__exit__"
    /\ pc' = "done"
    /\ hidDevice' = IF hidDevice = "none" \/ err # "none" THEN hidDevice ELSE "closed"
    /\ closes' = IF hidDevice = "none" \/ err # "none" THEN closes ELSE closes + 1
    /\ UNCHANGED <<keymap, written, unread, last, err, layerIdx, driverCodes,
                   data, offset, counter, args>>

\* DK61.__exit__: the HID handle is closed when there is one
Exit ==
    /\ pc = "__exit__"
    /\ pc' = "done"
    /\ hidDevice' = IF hidDevice = "none" THEN "none" ELSE "closed"
    /\ closes' = IF hidDevice = "none" THEN closes ELSE closes + 1
    /\ UNCHANGED <<keymap, written, unread, last, err, layerIdx, driverCodes,
                   data, offset, counter, args>>

Next ==
    \/ Enter
    \/ setStaticColorLayers
    \/ wipeoutLayerLighting
    \/ commandLayerSetStaticLighting
    \/ setAllLayers
    \/ wipeoutLayerKeys
    \/ commandCommonLayerSetKeyValues
    \/ Exit

Spec == Init /\ [][Next]_vars

(***************************************************************************)
(* SpecSend: one direct call of sendCommand with arguments drawn from      *)
(* bounded sets.                                                           *)
(***************************************************************************)
OffsetSamples ==
    {Wide(0), Wide(1), Wide(56), Wide(65535), Wide(65536), Wide(16777215),
     [bytes |-> <<0, 0, 0, 1>>, ext |-> 0],             \* 0x01000000
     [bytes |-> <<1, 0, 0, 1>>, ext |-> 0],             \* 0x01000001
     [bytes |-> <<0, 0, 0, 255>>, ext |-> 0],           \* 0xff000000
     [bytes |-> <<255, 255, 255, 255>>, ext |-> 0],     \* 0xffffffff
     [bytes |-> <<0, 0, 0, 0, 1>>, ext |-> 0],          \* 0x100000000
     [bytes |-> <<56, 0, 0, 0, 1>>, ext |-> 0],         \* 0x100000038
     [bytes |-> <<0, 0, 1, 0, 1>>, ext |-> 0],          \* 0x100010000
     MinusOne}

LengthSamples == {0, 56, 57, 256}

DataLenSamples == {0, 1, 56, 57, MaxDataLen}

\* a payload of n bytes, all different from zero and from each other
Payload(n) == [i \in 1..n |-> i + 100]

InitSend ==
    /\ keymap = <<>>
    /\ pc = "sendCommand"
    /\ hidDevice = "open"
    /\ closes = 0
    /\ written = <<>>
    /\ unread = {}
    /\ last = NoCall
    /\ err = "none"
    /\ layerIdx = 0
    /\ driverCodes = <<>>
    /\ data = <<>>
    /\ offset = 0
    /\ counter = 0
    /\ \E n \in DataLenSamples, o \in OffsetSamples, l \in LengthSamples,
          g \in BOOLEAN, s \in BOOLEAN :
          args = [entry |-> "sendCommand", cmd |-> OpCodes.LayerSetKeyValues,
                  subcmd |-> KeyboardLayer.Layer1, offset |-> o, length |-> l,
                  data |-> Payload(n), getreply |-> g, smallOffset |-> s]

CallSendCommand ==
    /\ pc = "sendCommand"
    /\ \E built \in {CommandFrame(args.cmd, args.subcmd, args.offset, args.length,
                                  args.data, args.smallOffset)} :
           \E w \in WriteOutcomes :
           /\ written' = Written(built, w, "", args.offset, args.length)
           /\ \E dev \in Outcomes(args.cmd, w) :
              LET r == sendCommand(built, args.getreply, dev)
              IN  /\ unread' = Unread(r)
                  /\ last' = CallRecord("sendCommand", "", args.cmd, args.offset, r, r.raised)
                  /\ err' = r.raised
    /\ pc' = "done"
    /\ UNCHANGED <<keymap, hidDevice, closes, layerIdx, driverCodes, data,
                   offset, counter, args>>

NextSend == CallSendCommand

SpecSend == InitSend /\ [][NextSend]_vars

(***************************************************************************)
(* SpecKeyValues: one direct call of commandCommonLayerSetKeyValues with   *)
(* the opcode, layer code and key codes drawn from bounded sets.           *)
(***************************************************************************)
\* key codes whose four bytes all differ, and differ from code to code
KeycodePatterns ==
    {[i \in 1..MaxCodes |-> [bytes |-> <<i, 100 + i, 200, 2>>, ext |-> 0]],
     [i \in 1..MaxCodes |-> [bytes |-> <<255, 255, 255, 255 - i>>, ext |-> 0]],
     [i \in 1..MaxCodes |-> IntOf(mapKeycodes["UnusedKey"])]}

InitKeyValues ==
    /\ keymap = <<>>
    /\ pc = "commandCommonLayerSetKeyValues"
    /\ hidDevice = "open"
    /\ closes = 0
    /\ written = <<>>
    /\ unread = {}
    /\ last = NoCall
    /\ err = "none"
    /\ layerIdx = 0
    /\ \E codes \in KeycodePatterns, n \in 0..MaxCodes : driverCodes = SubSeq(codes, 1, n)
    /\ data = <<>>
    /\ offset = 0
    /\ counter = 0
    /\ \E o \in {OpCodes.LayerSetKeyValues, OpCodes.LayerFnSetKeyValues} :
          args = [entry |-> "commandCommonLayerSetKeyValues", opcode |-> o,
                  layerCode |-> KeyboardLayer.Layer2]

NextKeyValues == commandCommonLayerSetKeyValues

SpecKeyValues == InitKeyValues /\ [][NextKeyValues]_vars

(***************************************************************************)
(* SpecCodec: the packet codec applied to packet tuples drawn from bounded *)
(* sets (_replace_checksum once or twice, then _pack, then _unpack of the  *)
(* packed bytes), together with the direct sendCommand calls of SpecSend,  *)
(* whose frames go through the same codec.                                 *)
(***************************************************************************)
\* a payload of n bytes whose last byte is zero
PayloadZeroEnd(n) == [i \in 1..n |-> IF i = n THEN 0 ELSE i + 100]

FrameSamples ==
    {PacketTuple(c, KeyboardLayer.Layer1, o, Wide(p), l, k, d) :
        c \in {OpCodes.LayerResetDataType, 256},
        o \in {0, 56, 65535},
        p \in {0, 16},
        l \in {0, 56},
        k \in {0, 4660, 65535, 65536, -1},
        d \in {Payload(n) : n \in DataLenSamples} \cup {PayloadZeroEnd(56)}}

InitCodec ==
    /\ keymap = <<>>
    /\ pc = "codec"
    /\ hidDevice = "open"
    /\ closes = 0
    /\ written = <<>>
    /\ unread = {}
    /\ last = NoCall
    /\ err = "none"
    /\ layerIdx = 0
    /\ driverCodes = <<>>
    /\ data = <<>>
    /\ offset = 0
    /\ counter = 0
    /\ \E t \in FrameSamples :
          args = [entry |-> "codec", original |-> t, frame |-> t, unpacked |-> t]

\* frame = frame._replace_checksum(); counter counts the calls.  What is
\* packed is the frame with its checksum field set to 0 (line 126), so the
\* old checksum need not fit its format
CodecReplaceChecksum ==
    /\ pc = "codec"
    /\ data = <<>>
    /\ counter < 2
    /\ IF PackOk([args.frame EXCEPT !.f6 = 0])
       THEN /\ \E t \in {_replace_checksum(args.frame)} : args' = [args EXCEPT !.frame = t]
            /\ counter' = counter + 1
            /\ UNCHANGED <<pc, err>>
       ELSE /\ err' = "struct.error"
            /\ pc' = "done"
            /\ UNCHANGED <<args, counter>>
    /\ UNCHANGED <<keymap, hidDevice, closes, written, unread, last, layerIdx,
                   driverCodes, data, offset>>

\* data = frame._pack()
CodecPack ==
    /\ pc = "codec"
    /\ data = <<>>
    /\ IF PackOk(args.frame)
       THEN data' = _pack(args.frame) /\ UNCHANGED <<pc, err>>
       ELSE err' = "struct.error" /\ pc' = "done" /\ data' = data
    /\ UNCHANGED <<keymap, hidDevice, closes, written, unread, last, layerIdx,
                   driverCodes, offset, counter, args>>

\* unpacked = CommandPacket._unpack(data)
CodecUnpack ==
    /\ pc = "codec"
    /\ Len(data) = 64
    /\ args' = [args EXCEPT !.unpacked = _unpack(data)]
    /\ pc' = "done"
    /\ UNCHANGED <<keymap, hidDevice, closes, written, unread, last, err, layerIdx,
                   driverCodes, data, offset, counter>>

NextCodec ==
    \/ CodecReplaceChecksum
    \/ CodecPack
    \/ CodecUnpack
    \/ CallSendCommand

SpecCodec == (InitCodec \/ InitSend) /\ [][NextCodec]_vars

(***************************************************************************)
(* SpecCommands: a session (with DK61() as dk61:) whose body calls the     *)
(* public commands that main does not use: commandInfoGetBufferSize,       *)
(* commandSetActiveLayer, test, and wipeoutLayer with either value of      *)
(* getreply.  The body makes up to MaxCalls calls; counter counts them.    *)
(***************************************************************************)
\* the calls the body chooses from
CommandCalls ==
    {[call |-> "commandInfoGetBufferSize", layerCode |-> 0, dataType |-> 0,
      getreply |-> TRUE],
     [call |-> "test", layerCode |-> 0, dataType |-> 0, getreply |-> TRUE]}
    \cup {[call |-> "commandSetActiveLayer", layerCode |-> l, dataType |-> 0,
           getreply |-> TRUE] : l \in {KeyboardLayer.Layer1, KeyboardLayer.Layer3}}
    \cup {[call |-> "wipeoutLayer", layerCode |-> l, dataType |-> d, getreply |-> g] :
              l \in {KeyboardLayer.Layer1, KeyboardLayer.Layer3},
              d \in {KeyboardLayerDataType.KeySet, KeyboardLayerDataType.Lighting},
              g \in BOOLEAN}

\* the first two payload bytes of the reply to an Info request
ReplySizes == {<<0, 0>>, <<56, 4>>}

InitCommands ==
    /\ keymap = <<>>
    /\ pc = "body"
    /\ hidDevice \in {"open", "none"}
    /\ closes = 0
    /\ written = <<>>
    /\ unread = {}
    /\ last = NoCall
    /\ err = "none"
    /\ layerIdx = 0
    /\ driverCodes = <<>>
    /\ data = <<>>
    /\ offset = 0
    /\ counter = 0
    /\ args = [entry |-> "commands", call |-> "none", layerCode |-> 0, dataType |-> 0,
               getreply |-> TRUE, returned |-> <<>>]

\* the body of the with statement: the next call, or the end of the body
SessionBody ==
    /\ pc = "body"
    /\ \/ /\ counter < MaxCalls
          /\ \E c \in CommandCalls :
                /\ args' = [args EXCEPT !.call = c.call, !.layerCode = c.layerCode,
                                        !.dataType = c.dataType,
                                        !.getreply = c.getreply]
                /\ pc' = c.call
          /\ counter' = counter + 1
       \/ /\ pc' = "__exit__"
          /\ UNCHANGED <<args, counter>>
    /\ UNCHANGED <<keymap, hidDevice, closes, written, unread, last, err, layerIdx,
                   driverCodes, data, offset>>

\* lines 485-487: test calls commandInfoGetBufferSize and then
\* commandSetActiveLayer(KeyboardLayer.Layer3.value)
test ==
    /\ pc = "test"
    /\ args' = [args EXCEPT !.layerCode = KeyboardLayer.Layer3]
    /\ pc' = "commandInfoGetBufferSize"
    /\ UNCHANGED <<keymap, hidDevice, closes, written, unread, last, err, layerIdx,
                   driverCodes, data, offset, counter>>

\* lines 476-480: sendCommand(OpCodes.Info.value, 0x09, verbose=True); the
\* pair (result.data[0], result.data[1]) is returned
commandInfoGetBufferSize ==
    /\ pc = "commandInfoGetBufferSize"
    /\ \E built \in {CommandFrame(OpCodes.Info, 9, Wide(0), 0, <<>>, FALSE)} :
           \E w \in WriteOutcomes :
           /\ written' = Written(built, w, "", 0, 0)
           /\ \E dev \in Outcomes(OpCodes.Info, w) :
              LET r == sendCommand(built, TRUE, dev)
              IN  /\ unread' = Unread(r)
                  /\ last' = CallRecord("commandInfoGetBufferSize", "", OpCodes.Info, 0,
                                        r, r.raised)
                  /\ IF r.raised # "none"
                     THEN pc' = "__exit__" /\ err' = r.raised /\ args' = args
                     ELSE /\ \E size \in ReplySizes :
                                args' = [args EXCEPT !.returned = size]
                          /\ err' = err
                          /\ pc' = IF args.call = "test" THEN "commandSetActiveLayer"
                                                         ELSE "body"
    /\ UNCHANGED <<keymap, hidDevice, closes, layerIdx, driverCodes, data, offset,
                   counter>>

\* lines 482-483: sendCommand(OpCodes.SetLayer.value, layerCode, verbose=True);
\* the reply is read and dropped
commandSetActiveLayer ==
    /\ pc = "commandSetActiveLayer"
    /\ \E built \in {CommandFrame(OpCodes.SetLayer, args.layerCode, Wide(0), 0, <<>>,
                                  FALSE)} :
           \E w \in WriteOutcomes :
           /\ written' = Written(built, w, "", 0, 0)
           /\ \E dev \in Outcomes(OpCodes.SetLayer, w) :
              LET r == sendCommand(built, TRUE, dev)
              IN  /\ unread' = Unread(r)
                  /\ last' = CallRecord("commandSetActiveLayer", "", OpCodes.SetLayer, 0,
                                        r, r.raised)
                  /\ IF r.raised # "none"
                     THEN pc' = "__exit__" /\ err' = r.raised
                     ELSE pc' = "body" /\ err' = err
    /\ UNCHANGED <<keymap, hidDevice, closes, layerIdx, driverCodes, data, offset,
                   counter, args>>

\* lines 467-468 called by the body: wipeoutLayer(layerCode, dataType,
\* getreply); with getreply False sendCommand returns after the write and
\* the reply stays unread
wipeoutLayer ==
    /\ pc = "wipeoutLayer"
    /\ \E built \in {wipeoutLayerFrame(args.layerCode, args.dataType)} :
           \E w \in WriteOutcomes :
           /\ written' = Written(built, w, "", args.dataType, 0)
           /\ \E dev \in Outcomes(OpCodes.LayerResetDataType, w) :
              LET r == sendCommand(built, args.getreply, dev)
                  e == wipeoutLayerRaises(r)
              IN  /\ unread' = Unread(r)
                  /\ last' = CallRecord("wipeoutLayer", "", OpCodes.LayerResetDataType,
                                        args.dataType, r, e)
                  /\ IF e # "none"
                     THEN pc' = "__exit__" /\ err' = e
                     ELSE pc' = "body" /\ err' = err
    /\ UNCHANGED <<keymap, hidDevice, closes, layerIdx, driverCodes, data, offset,
                   counter, args>>

NextCommands ==
    \/ SessionBody
    \/ test
    \/ commandInfoGetBufferSize
    \/ commandSetActiveLayer
    \/ wipeoutLayer
    \/ Exit

SpecCommands == InitCommands /\ [][NextCommands]_vars

(***************************************************************************)
(* hexdump: lines 46-62.  Text is a sequence of code points.               *)
(***************************************************************************)
\* a lower-case hexadecimal digit
HexDigitChar(d) == IF d < 10 THEN 48 + d ELSE 87 + d

\* "%02x" and "{:08x}": n in hexadecimal, at least w digits, zero filled
RECURSIVE HexChars(_, _)
HexChars(n, w) ==
    IF n < 16 /\ w <= 1 THEN <<HexDigitChar(n)>>
    ELSE HexChars(n \div 16, w - 1) \o <<HexDigitChar(n % 16)>>

\* ' '.join(strs[lo:hi]) for 1 <= lo + 1 <= hi <= Len(strs)
RECURSIVE JoinSpace(_, _, _)
JoinSpace(strs, lo, hi) ==
    IF lo + 1 >= hi THEN strs[hi]
    ELSE JoinSpace(strs, lo, hi - 1) \o <<32>> \o strs[hi]

\* lines 46-51
hexdump_line(buf) ==
    LET linedata == Slice(buf, 0, 16) \o <<>>
        hexbytes == [i \in 1..16 |-> IF i <= Len(linedata)
                                     THEN HexChars(linedata[i], 2) ELSE <<32, 32>>]
        printable == [i \in 1..Len(linedata) |->
                         IF linedata[i] >= 32 /\ linedata[i] < 127
                         THEN linedata[i] ELSE 46]
    IN  JoinSpace(hexbytes, 0, 8) \o <<32, 32>> \o JoinSpace(hexbytes, 8, 16)
            \o <<32, 32, 32>> \o Slice(printable, 0, 8) \o <<32>>
            \o Slice(printable, 8, Len(printable))

\* line 57: the line hexdump_iterlines yields at an offset
hexdump_iterlinesLine(buf, start, at) ==
    HexChars(start + at, 8) \o <<32, 32>> \o hexdump_line(Slice(buf, at, at + 16))

\* the buffers and start addresses hexdump is called with
DumpBuffers ==
    {[i \in 1..n |-> (seed + 7 * i) % 256] : n \in 0..MaxDumpLen, seed \in {0, 60}}

DumpStarts == {0, 16, 4096}

\* hexdump(data, start) is called: the generator is created, nothing has run
InitHexdump ==
    /\ keymap = <<>>
    /\ pc = "hexdump"
    /\ hidDevice = "none"
    /\ closes = 0
    /\ written = <<>>
    /\ unread = {}
    /\ last = NoCall
    /\ err = "none"
    /\ layerIdx = 0
    /\ driverCodes = <<>>
    /\ data \in DumpBuffers
    /\ offset = 0
    /\ counter = 0
    /\ \E start \in DumpStarts :
          args = [entry |-> "hexdump", start |-> start, lines |-> <<>>]

\* one pass of the loop of hexdump (lines 60-62): the generator runs to its
\* yield (lines 55-57) and the line is printed; args.lines are the lines
\* printed, counter their number.  The body of the while loop of
\* hexdump_iterlines has no statement but the yield: offset stays.
hexdump ==
    /\ pc = "hexdump"
    /\ offset < Len(data)
    /\ counter < MaxLines
    /\ \E line \in {hexdump_iterlinesLine(data, args.start, offset)} :
          args' = [args EXCEPT !.lines = Append(@, line)]
    /\ counter' = counter + 1
    /\ UNCHANGED <<keymap, pc, hidDevice, closes, written, unread, last, err,
                   layerIdx, driverCodes, data, offset>>

\* the while condition of line 56 fails: the generator is exhausted and
\* hexdump returns
hexdumpReturn ==
    /\ pc = "hexdump"
    /\ ~(offset < Len(data))
    /\ pc' = "done"
    /\ UNCHANGED <<keymap, hidDevice, closes, written, unread, last, err,
                   layerIdx, driverCodes, data, offset, counter, args>>

NextHexdump ==
    \/ hexdump
    \/ hexdumpReturn

SpecHexdump == InitHexdump /\ [][NextHexdump]_vars

(***************************************************************************)
(* Properties.                                                             *)
(***************************************************************************)
FrameCmd(w) == w.frame[1]

Finished == pc \in {"__exit__", "done"}

\* the reply read by the last call carries another command byte than the request
Mismatch(c) == c.gotReply /\ c.reply.cmd # c.cmd

LightingReset(c) == c.op = "wipeoutLayer" /\ c.at = KeyboardLayerDataType.Lighting

\* C1: in every command-layer operation that reads a reply (Reset Layer
\* Data, Set Key Values / Fn Set Key Values, Set Static Lighting), a reply
\* whose command byte differs from the request's makes the operation raise
\* an error, and no further frame of that operation is written.
\* (wipeoutLayer drops the reply, so this fails for Reset Layer Data.)
C1_MismatchRaises ==
    /\ [](Mismatch(last) => last.opRaised # "none")
    /\ [][Mismatch(last) =>
            ~(written' # written /\ last'.op = last.op /\ last'.layer = last.layer)]_vars

\* what holds of the chunked transfers, where the reply is checked
C1_ChunkMismatchSeen ==
    /\ Mismatch(last)
    /\ last.op # "wipeoutLayer"
    /\ last.opRaised = "Error"

\* C2: chunking law of commandCommonLayerSetKeyValues.  When the call
\* returns (every frame was answered with the matching command byte), for
\* L key codes exactly ceil(4L/56) frames were written, every frame but the
\* last carries 56 bytes and the last between 1 and 56, and the first
\* `length` payload bytes of the frames, in send order, are the
\* little-endian 4-byte encodings of the L codes in order.
CeilDiv(a, b) == (a + b - 1) \div b

\* the bytes carried by the frames before frame k
RECURSIVE CarriedBefore(_)
CarriedBefore(k) == IF k <= 1 THEN 0 ELSE CarriedBefore(k - 1) + written[k - 1].length

\* byte b (from 0) of the little-endian 4-byte encoding of the codes
EncodedByte(codes, b) == ByteAt(codes[(b \div 4) + 1], b % 4)

C2_ChunkingLaw ==
    (pc = "done" /\ err = "none") =>
        /\ Len(written) = CeilDiv(4 * Len(driverCodes), 56)
        /\ \A k \in 1..Len(written) :
              /\ k < Len(written) => written[k].length = 56
              /\ written[k].length \in 1..56
              /\ \A j \in 0..(written[k].length - 1) :
                    written[k].frame[9 + j] = EncodedByte(driverCodes, CarriedBefore(k) + j)
        /\ CarriedBefore(Len(written) + 1) = 4 * Len(driverCodes)

C2_ThreeFramesSent ==
    /\ pc = "done"
    /\ err = "none"
    /\ Len(written) = 3
    /\ written[3].length < 56
    /\ \E i, j \in 0..3 : ByteAt(driverCodes[1], i) # ByteAt(driverCodes[1], j)

\* C3 as stated: throughout a session, a frame is written only when the
\* reply to every frame written before has been read.
C3_OneOutstanding == [][written' # written => unread = {}]_vars

\* C3 amended: a frame is written only when the reply to every frame
\* written before has been read, except for lighting Reset Layer Data
\* frames, whose missing reply setStaticColorLayers ignores.
IsLightingReset(w) ==
    FrameCmd(w) = OpCodes.LayerResetDataType /\ w.at = KeyboardLayerDataType.Lighting

C3_OneOutstandingButLightingReset ==
    [][written' # written => \A i \in unread : IsLightingReset(written[i])]_vars

\* a frame was written while a lighting reset was unanswered
C3_WrittenAfterUnansweredReset ==
    /\ unread # {}
    /\ \E i \in unread : i < Len(written)

\* C4 as stated: when a key name of a layer's mapping is not in the key-name
\* table, a lookup error is raised and at that moment no Reset Layer Data
\* frame and no Set Key Values frame has been written for that layer.
KeyLayerName == keymap.keyLayers[layerIdx].name

\* setAllLayers, arrived at a layer with a key name that is not in the
\* table, raises the lookup error
C4_LookupErrorRaised ==
    [][(pc = "setAllLayers" /\ layerIdx <= Len(keymap.keyLayers)
          /\ KeyNamesWrong(keymap.keyLayers[layerIdx].map)) =>
            (err' = "LookupError" /\ written' = written)]_vars

C4_NothingSentForLayer ==
    /\ C4_LookupErrorRaised
    /\ [](err = "LookupError" =>
            \A i \in 1..Len(written) :
                written[i].layer = KeyLayerName =>
                    FrameCmd(written[i]) \notin {OpCodes.LayerResetDataType,
                                                 OpCodes.LayerSetKeyValues,
                                                 OpCodes.LayerFnSetKeyValues})

\* C5: only the lighting reset suppresses errors.  A lighting Reset Layer
\* Data that fails or goes unanswered is ignored and the first Set Static
\* Lighting frame of that layer is sent next; a timeout or error of any
\* other call propagates, and once an error propagates nothing more is
\* written.
C5_OnlyLightingResetSuppressed ==
    /\ []((LightingReset(last) /\ last.raised # "none") =>
             /\ err = "none"
             /\ pc = "commandLayerSetStaticLighting"
             /\ offset = 0
             /\ keymap.staticColorLayers[layerIdx].name = last.layer)
    /\ [][(LightingReset(last) /\ last.raised # "none" /\ last' # last) =>
             /\ last'.op = "commandLayerSetStaticLighting"
             /\ last'.layer = last.layer
             /\ last'.at = 0]_vars
    /\ []((last.op # "none" /\ ~LightingReset(last) /\ last.opRaised # "none") =>
             /\ err = last.opRaised
             /\ Finished)
    /\ []((last.op # "none" /\ ~LightingReset(last) /\ last.raised # "none") =>
             last.opRaised = last.raised)
    /\ [][err # "none" => written' = written]_vars

\* the first lighting frame was written after a lighting reset timed out
C5_LightingSentAfterFailedReset ==
    /\ last.op = "commandLayerSetStaticLighting"
    /\ last.wrote
    /\ Len(written) >= 2
    /\ (Len(written) - 1) \in unread
    /\ IsLightingReset(written[Len(written) - 1])

\* C6: the logical buffer of commandLayerSetStaticLighting for 132 LEDs:
\* bytes 0..511 are the effect table, slot 0 = the words [512, 1, 0, 0],
\* slots 1..31 all 0xFF; bytes 512..515 are the 16-bit words [0, 4 * 132];
\* then the 132 colour words, little-endian, in order; 1044 bytes in all.
C6_StaticLightingLayout ==
    (pc = "commandLayerSetStaticLighting") =>
        /\ Len(data) = 512 + 4 + 4 * 132
        /\ SubSeq(data, 1, 16) = <<0, 2, 0, 0, 1, 0, 0, 0, 0, 0, 0, 0, 0, 0, 0, 0>>
        /\ \A i \in 17..512 : data[i] = 255
        /\ SubSeq(data, 513, 516) = <<0, 0, 16, 2>>
        /\ Len(driverCodes) = 132
        /\ \A k \in 0..131 : \A j \in 0..3 :
              data[516 + 4 * k + j + 1] = ByteAt(driverCodes[k + 1], j)

C6_BufferWithColours ==
    /\ pc = "commandLayerSetStaticLighting"
    /\ \E k \in 1..Len(driverCodes) : driverCodes[k] # driverCodes[1]
    /\ \E k \in 1..Len(driverCodes) : ByteAt(driverCodes[k], 0) # ByteAt(driverCodes[k], 2)

\* C7: no retry.  A reply read that times out makes sendCommand raise (no
\* reply value is returned), and no logical frame (operation, layer,
\* offset) is written twice in a session.
C7_NoRetry ==
    /\ (last.kind = "timeout") => (last.raised # "none" /\ ~last.gotReply)
    /\ \A i, j \in 1..Len(written) :
          (i < j) => ~( /\ FrameCmd(written[i]) = FrameCmd(written[j])
                        /\ written[i].layer = written[j].layer
                        /\ written[i].at = written[j].at )

C7_TimeoutSurfaced ==
    /\ last.kind = "timeout"
    /\ last.op = "commandCommonLayerSetKeyValues"
    /\ err = "struct.error"
    /\ pc = "done"

\* how far the session has come: the phase, then the layer, then the
\* position within the layer; Exit is the last step
LayerSpan == 4 + dataBufferSize + keyBufferSize * numKeys

Progress ==
    LET lightLayers == Len(keymap.staticColorLayers) + 2
    IN  CASE pc = "__enter__" -> 0
          [] pc = "setStaticColorLayers" -> 1 + LayerSpan * layerIdx
          [] pc = "wipeoutLayerLighting" -> 2 + LayerSpan * layerIdx
          [] pc = "commandLayerSetStaticLighting" -> 3 + LayerSpan * layerIdx + offset
          [] pc = "setAllLayers" -> 1 + LayerSpan * (lightLayers + layerIdx)
          [] pc = "wipeoutLayerKeys" -> 2 + LayerSpan * (lightLayers + layerIdx)
          [] pc = "commandCommonLayerSetKeyValues" ->
                3 + LayerSpan * (lightLayers + layerIdx) + counter
          [] pc = "__exit__" -> LayerSpan * (lightLayers + Len(keymap.keyLayers) + 2)
          [] pc = "done" -> LayerSpan * (lightLayers + Len(keymap.keyLayers) + 2) + 1

\* C8: the HID handle stays open during the session and is released at the
\* session's end on every path, whether or not an error was raised, exactly
\* once, and nothing is written after the release.  The session does reach
\* its end: every step moves it strictly forward in a bounded order, and
\* the only step that waits on a condition (the lighting loop) is never
\* entered with the condition false.
C8_HandleReleased ==
    /\ [](hidDevice = "closed" <=> (pc = "done" /\ hidDevice # "none"))
    /\ [](closes = (IF hidDevice = "closed" THEN 1 ELSE 0))
    /\ [][hidDevice = "closed" => written' = written]_vars
    /\ [][Progress' > Progress]_vars
    /\ [](pc \in {"__enter__", "setStaticColorLayers", "wipeoutLayerLighting",
                  "commandLayerSetStaticLighting", "setAllLayers",
                  "wipeoutLayerKeys", "commandCommonLayerSetKeyValues",
                  "__exit__", "done"})
    /\ [](pc = "commandLayerSetStaticLighting" => offset < dataBufferSize)

C8_ReleasedAfterError ==
    /\ pc = "done"
    /\ err # "none"
    /\ written # <<>>
    /\ hidDevice = "closed"
    /\ closes = 1

\* C9: sendCommand with a payload of more than 56 bytes raises an error
\* before anything is written; the payload is never cut to 56 bytes and sent.
C9_LongPayloadRejected ==
    (pc = "done" /\ Len(args.data) > 56) => (written = <<>> /\ err # "none")

\* C10: sendCommand with an offset above 0x00FFFFFF raises ValueError and
\* writes nothing; every offset in 0..0x00FFFFFF is accepted.
AboveFFFFFF(value) ==
    /\ value.ext = 0
    /\ \E i \in 4..Len(value.bytes) : value.bytes[i] # 0

UpToFFFFFF(value) ==
    /\ value.ext = 0
    /\ \A i \in 4..Len(value.bytes) : value.bytes[i] = 0

C10_OffsetRange ==
    (pc = "done") =>
        /\ AboveFFFFFF(args.offset) => (err = "ValueError" /\ written = <<>>)
        /\ UpToFFFFFF(args.offset) => err # "ValueError"

\* the 64 bytes with the checksum field (bytes 6 and 7) zeroed
ChecksumZeroed(frame) == [i \in 1..Len(frame) |-> IF i \in {7, 8} THEN 0 ELSE frame[i]]

\* C11: for every frame f whose fields other than the checksum can be
\* packed, _checksum_ok holds of
\* _replace_checksum(f) and a second _replace_checksum changes nothing; and
\* every frame sendCommand writes carries in bytes 6..7 (little-endian) the
\* CRC-16 with polynomial 0x1021, initial value 0xFFFF and no output XOR of
\* the same 64 bytes with the checksum field zeroed.
C11_ChecksumHolds ==
    /\ []((args.entry = "codec" /\ counter >= 1) => _checksum_ok(args.frame))
    /\ [][(args.entry = "codec" /\ counter >= 1 /\ counter' = counter + 1)
            => args'.frame = args.frame]_vars
    /\ [](\A i \in 1..Len(written) :
            written[i].frame[7] + 256 * written[i].frame[8]
                = crc16(ChecksumZeroed(written[i].frame), 4129, 65535, 0))

\* the checksum of a frame whose checksum field was not zero was replaced twice
C11_ReplacedTwice ==
    /\ args.entry = "codec"
    /\ counter = 2
    /\ args.original.f6 # 0
    /\ args.frame.f6 # args.original.f6

\* the packed frame was unpacked again
RoundTripDone == args.entry = "codec" /\ pc = "done" /\ err = "none"

\* C12 as stated: for any Command Frame whose payload has at most 56 bytes,
\* unpacking the 64 bytes produced by packing it yields a frame equal to the
\* original, field by field including the payload.
C12_RoundTrip ==
    (RoundTripDone /\ Len(args.frame.f7) <= 56) => args.unpacked = args.frame

\* C12 amended: ... yields a frame whose header fields equal the original's
\* and whose payload is the original's payload followed by zero bytes up to
\* 56 bytes; the frames are equal exactly when the payload has 56 bytes.
ZeroPadded(bytes) == bytes \o Zeros(56 - Len(bytes))

C12_RoundTripPadded ==
    (RoundTripDone /\ Len(args.frame.f7) <= 56) =>
        /\ args.unpacked = [args.frame EXCEPT !.f7 = ZeroPadded(args.frame.f7)]
        /\ (args.unpacked = args.frame) <=> (Len(args.frame.f7) = 56)

\* a one-byte payload came back as 56 bytes
C12_ShortPayloadPadded ==
    /\ RoundTripDone
    /\ Len(args.frame.f7) = 1
    /\ Len(args.unpacked.f7) = 56
    /\ args.unpacked.f3 = 65535
    /\ args.unpacked.f6 = 4660

\* setAllLayers has built the key codes of the layer at layerIdx
KeyCodesBuilt ==
    /\ args.entry = "main"
    /\ pc \in {"wipeoutLayerKeys", "commandCommonLayerSetKeyValues"}

\* byte j (from the least significant) of a code written as 8 hexadecimal digits
HexByte(digits, j) == 16 * digits[7 - 2 * j] + digits[8 - 2 * j]

\* C13: the key code sequence setAllLayers builds for a layer has one entry
\* per physical key, in the order of the physical key table; the entry of a
\* key that is a source of the layer's mapping is the code of its
\* destination, every other entry is the "unused" code 0xFFFFFFFF.
C13_KeyCodeSequence ==
    KeyCodesBuilt =>
        LET layerKeymap == keymap.keyLayers[layerIdx].map
        IN  /\ Len(driverCodes) = Len(keyboardKeys)
            /\ \A k \in 1..Len(keyboardKeys) : \A j \in 0..3 :
                  ByteAt(driverCodes[k], j) =
                      IF keyboardKeys[k].KeyName \in DOMAIN layerKeymap
                      THEN HexByte(mapKeycodes[layerKeymap[keyboardKeys[k].KeyName]], j)
                      ELSE 255

\* A -> Up and Caps -> Ctrl: the code of Up (0x02005200) at the position of
\* A, the code of Ctrl (0x02000001) at the position of Caps
C13_UpAtPositionOfA ==
    /\ KeyCodesBuilt
    /\ keymap.keyLayers[layerIdx].map = [A |-> "Up", Caps |-> "Ctrl"]
    /\ keyboardKeys[8].KeyName = "A"
    /\ driverCodes[8].bytes = <<0, 82, 0, 2>>
    /\ driverCodes[7].bytes = <<1, 0, 0, 2>>
    /\ \A k \in (1..16) \ {7, 8} : driverCodes[k].bytes = <<255, 255, 255, 255>>

\* commandLayerSetStaticLighting has just returned for the layer before layerIdx
LightingTransferred ==
    /\ pc = "setStaticColorLayers"
    /\ last.op = "commandLayerSetStaticLighting"

\* C14: Set Static Lighting transfer.  When the transfer of the buffer of
\* S = 512 + 4 + 4 * 132 bytes has completed (every frame was answered with
\* the matching command byte), exactly ceil(S / 56) frames with command 0x27
\* were written for the layer, they are the last frames written, and the
\* k-th of them (k from 0) carries the layer code, the offset 56k in
\* full-offset mode (low 16 bits in bytes 2..3, bits 16..23 in byte 4), the
\* length min(56, S - 56k) in byte 5, and the buffer bytes [56k, 56k + length)
\* followed by zero bytes.
C14_LightingTransfer ==
    LightingTransferred =>
        LET S == 512 + 4 + 4 * 132
            n == CeilDiv(S, 56)
            first == Len(written) - n
            layer == keymap.staticColorLayers[layerIdx - 1].name
        IN  /\ first >= 0
            /\ Len(data) = S
            /\ \A i \in 1..first :
                  ~(FrameCmd(written[i]) = OpCodes.LayerSetLightValues
                    /\ written[i].layer = layer)
            /\ \A k \in 0..(n - 1) :
                  LET f == written[first + k + 1].frame
                      length == IF S - 56 * k < 56 THEN S - 56 * k ELSE 56
                  IN  /\ f[1] = 39
                      /\ f[2] = layerCodes[layer].code
                      /\ f[3] + 256 * f[4] = (56 * k) % 65536
                      /\ f[5] = (56 * k) \div 65536
                      /\ f[6] = length
                      /\ \A j \in 1..56 :
                            f[8 + j] = IF j <= length THEN data[56 * k + j] ELSE 0

\* the 19 frames of a layer were written, the last one with 36 bytes
C14_NineteenFramesSent ==
    /\ LightingTransferred
    /\ Len(written) >= 19
    /\ written[Len(written)].frame[6] = 36
    /\ written[Len(written)].frame[3] + 256 * written[Len(written)].frame[4] = 1008
    /\ written[Len(written)].at = 1008

\* C15: every Set Key Values / Fn Set Key Values frame carries in its offset
\* field (bytes 2..3) the running byte offset, i.e. the sum of the lengths
\* of the chunks sent before, and in its payload-length field (header byte
\* 5) the number of key-code bytes of the chunk.
\* (sendCommand in small-offset mode puts the length in byte 4 and 0 in
\* byte 5.)
C15_SmallOffsetHeader ==
    \A k \in 1..Len(written) :
        /\ written[k].frame[1] \in {OpCodes.LayerSetKeyValues, OpCodes.LayerFnSetKeyValues}
        /\ written[k].frame[3] + 256 * written[k].frame[4] = CarriedBefore(k)
        /\ written[k].frame[6] = written[k].length

\* what the frames do carry: the running offset in bytes 2..3, the length of
\* the chunk in byte 4 and zero in byte 5
C15_LengthInByteFour ==
    \A k \in 1..Len(written) :
        /\ written[k].frame[3] + 256 * written[k].frame[4] = CarriedBefore(k)
        /\ written[k].frame[5] = written[k].length
        /\ written[k].frame[6] = 0
        /\ written[k].length \in 1..56

LastOf(s) == s[Len(s)]

\* a step of wipeoutLayer writes one frame when the write succeeds, none otherwise
OneResetFramePerCall ==
    [][(pc \in {"wipeoutLayerLighting", "wipeoutLayerKeys"}) =>
          (/\ Len(written') = Len(written) + (IF last'.wrote THEN 1 ELSE 0)
           /\ last'.op = "wipeoutLayer"
           /\ last'.wrote => FrameCmd(LastOf(written')) = 33)]_vars

\* C16 as stated: Reset Layer Data sends exactly one frame with command
\* 0x21, subcommand = layer code, the data-type code carried in the payload,
\* small-offset encoding of the header, and a 1000 ms reply timeout.
C16_DataTypeInPayload ==
    /\ OneResetFramePerCall
    /\ [](\A i \in 1..Len(written) :
            FrameCmd(written[i]) = 33 =>
                /\ written[i].frame[2] = layerCodes[written[i].layer].code
                /\ written[i].frame[9] = written[i].at
                /\ wipeoutLayerCall(written[i].frame[2], written[i].at).replytimeout = 1000)

\* C16 amended: Reset Layer Data sends exactly one frame with command 0x21,
\* subcommand = layer code, the data-type code in the offset field (header
\* bytes 2..3, little-endian), zero in header bytes 4 and 5, an all-zero
\* payload, and reads the reply with a 1000 ms timeout.
C16_DataTypeInOffsetField ==
    /\ OneResetFramePerCall
    /\ [](\A i \in 1..Len(written) :
            FrameCmd(written[i]) = 33 =>
                /\ written[i].frame[2] = layerCodes[written[i].layer].code
                /\ written[i].frame[3] = written[i].at
                /\ written[i].at \in {1, 6, 7}
                /\ \A j \in (4..6) \cup (9..64) : written[i].frame[j] = 0
                /\ wipeoutLayerCall(written[i].frame[2], written[i].at).replytimeout = 1000
                /\ wipeoutLayerCall(written[i].frame[2], written[i].at).getreply)

\* the Fn key set of a layer was reset: 21 02 07 00 00 00
C16_FnKeySetReset ==
    /\ last.op = "wipeoutLayer"
    /\ last.wrote
    /\ SubSeq(written[Len(written)].frame, 1, 6) = <<33, 2, 7, 0, 0, 0>>

IsSetKeyValues(w) ==
    FrameCmd(w) \in {OpCodes.LayerSetKeyValues, OpCodes.LayerFnSetKeyValues}

\* a Reset Layer Data frame of a key data type, as setAllLayers writes them
IsKeyReset(w) ==
    /\ FrameCmd(w) = OpCodes.LayerResetDataType
    /\ w.frame[3] \in {KeyboardLayerDataType.KeySet, KeyboardLayerDataType.FnKeySet}

\* C17: per-layer ordering in setAllLayers.  Before every Set Key Values
\* frame of a layer exactly one Reset Layer Data frame of a key data type
\* has been written for that layer, and it directly precedes the layer's
\* first Set Key Values frame; a non-Fn layer uses data type KeySet (1) with
\* opcode 0x22, an Fn layer data type FnKeySet (7) with opcode 0x31; both
\* frames carry the layer code of the layer-name table.
C17_ResetBeforeKeyValues ==
    \A i \in 1..Len(written) :
        IsSetKeyValues(written[i]) =>
            LET name == written[i].layer
                fn == layerCodes[name].isFnLayer
                resets == {j \in 1..Len(written) :
                              IsKeyReset(written[j]) /\ written[j].layer = name}
            IN  /\ Cardinality(resets) = 1
                /\ \A j \in resets :
                      /\ j < i
                      /\ \A k \in (j + 1)..i :
                            IsSetKeyValues(written[k]) /\ written[k].layer = name
                      /\ written[j].frame[2] = layerCodes[name].code
                      /\ written[j].frame[3] = (IF fn THEN 7 ELSE 1)
                /\ written[i].frame[2] = layerCodes[name].code
                /\ FrameCmd(written[i]) = (IF fn THEN 49 ELSE 34)

\* a non-Fn layer and then an Fn layer were programmed, each after its reset
C17_TwoLayersProgrammed ==
    \E i, j \in 1..Len(written) :
        /\ i + 1 < j
        /\ SubSeq(written[i].frame, 1, 3) = <<33, 2, 1>>
        /\ FrameCmd(written[i + 1]) = 34
        /\ SubSeq(written[j].frame, 1, 3) = <<33, 2, 7>>
        /\ j < Len(written)
        /\ FrameCmd(written[j + 1]) = 49

\* setStaticColorLayers has built the colour table of the layer at layerIdx
ColorTableBuilt == pc \in {"wipeoutLayerLighting", "commandLayerSetStaticLighting"}

Black == <<0, 0, 0, 0, 0, 0>>

\* the global default: the "default" colour definition, else black
GlobalDefault ==
    IF "default" \in DOMAIN keymap.colorDefinitions
    THEN keymap.colorDefinitions["default"] ELSE Black

\* the layer's default colour: the layer's "default" entry resolved
\* through the colour definitions, else the global default
LayerDefault ==
    LET layerColorMap == keymap.staticColorLayers[layerIdx].map
    IN  IF "default" \in DOMAIN layerColorMap
           /\ layerColorMap["default"] \in DOMAIN keymap.colorDefinitions
        THEN keymap.colorDefinitions[layerColorMap["default"]]
        ELSE GlobalDefault

\* byte j (from the least significant) of a colour written as 6 hexadecimal digits
ColorByte(digits, j) == IF j = 3 THEN 0 ELSE 16 * digits[5 - 2 * j] + digits[6 - 2 * j]

\* the colour table has 132 entries and entry led is the colour Colour(name)
\* of the key at that LED when the layer names the key, else the layer default
ColorTableIs(Colour(_)) ==
    LET layerColorMap == keymap.staticColorLayers[layerIdx].map
    IN  /\ Len(driverCodes) = 132
        /\ \A led \in 0..131 : \A j \in 0..3 :
              LET named == {k \in 1..Len(keyboardKeys) :
                               /\ keyboardKeys[k].LocationLED = led
                               /\ keyboardKeys[k].KeyName \in DOMAIN layerColorMap}
              IN  /\ named = {} =>
                         ByteAt(driverCodes[led + 1], j) = ColorByte(LayerDefault, j)
                  /\ \A k \in named :
                         ByteAt(driverCodes[led + 1], j) =
                             ColorByte(Colour(layerColorMap[keyboardKeys[k].KeyName]), j)

\* the named colour's definition; the layer's default colour when the name
\* is unresolvable or is "default"
NamedElseLayerDefault(name) ==
    IF name \in DOMAIN keymap.colorDefinitions /\ name # "default"
    THEN keymap.colorDefinitions[name] ELSE LayerDefault

\* the named colour's definition; the global default when the name is
\* unresolvable or is "default"
NamedElseGlobalDefault(name) ==
    IF name \in DOMAIN keymap.colorDefinitions /\ name # "default"
    THEN keymap.colorDefinitions[name] ELSE GlobalDefault

\* C18 as stated: the colour table of a layer has 132 entries; an LED not
\* named in the layer's colour map gets the layer's default colour (the
\* layer's "default" entry resolved through the colour definitions, else
\* the global "default" definition, else black); an LED whose key is named
\* gets the named colour's definition, and when that name is unresolvable
\* or is "default" it gets the layer's default colour.
C18_UnresolvedGetsLayerDefault == ColorTableBuilt => ColorTableIs(NamedElseLayerDefault)

\* C18 amended: ... and when that name is unresolvable or is "default" it
\* gets the global "default" definition, else black, whatever the layer's
\* default colour is.
C18_UnresolvedGetsGlobalDefault == ColorTableBuilt => ColorTableIs(NamedElseGlobalDefault)

\* the four bytes of a colour, least significant first
FourBytes(value) == [j \in 1..4 |-> ByteAt(value, j - 1)]

\* layer default red, global default 0x101010: A (LED 45) is blue, Q (LED
\* 23, colour "nosuch") and Esc (LED 0, colour "default") are 0x101010, the
\* other LEDs red
C18_GlobalDefaultUnderRedLayer ==
    /\ ColorTableBuilt
    /\ FourBytes(driverCodes[46]) = <<255, 0, 0, 0>>
    /\ FourBytes(driverCodes[24]) = <<16, 16, 16, 0>>
    /\ FourBytes(driverCodes[1]) = <<16, 16, 16, 0>>
    /\ FourBytes(driverCodes[2]) = <<0, 0, 255, 0>>
    /\ FourBytes(driverCodes[132]) = <<0, 0, 255, 0>>

\* C19: a reply whose result byte is not 0x01 makes the command-layer
\* operation fail with a CmdError, and no further frame of that operation
\* is sent.
\* (No operation reads the result byte; CmdError is never raised.)
C19_FailureResultRaises ==
    /\ []((last.gotReply /\ last.reply.result # 1) => last.opRaised = "CmdError")
    /\ [][(last.gotReply /\ last.reply.result # 1) =>
            ~(written' # written /\ last'.op = last.op /\ last'.layer = last.layer)]_vars

(***************************************************************************)
(* The reference run of a session: the frames main writes for a keymap     *)
(* when the device takes every frame and answers it with the matching      *)
(* command byte.  RefFrame(km, n) is the n-th of them (n from 1), <<>>     *)
(* when the run writes fewer than n frames.                                *)
(***************************************************************************)
\* frames per lit layer: the reset and the chunks of the lighting buffer
LightFrames == 1 + CeilDiv(dataBufferSize, maxChunkSize)

\* frames per key layer: the reset and the chunks of the key codes
KeyFrames == 1 + CeilDiv(4 * Len(keyboardKeys), keyBufferSize)

\* byte j (from 0) of the lighting buffer of a colour table, read off the
\* layout of lines 404-425: the header of the static effect, the unused
\* effect headers, the parameter header, the colours
RefLightByte(driverColorCodes, j) ==
    IF j < effectHeaderSize
    THEN ByteAt(<<Wide(totalEffectsHeaderSize), Wide(1), Wide(0), Wide(0)>>[j \div 4 + 1],
                j % 4)
    ELSE IF j < totalEffectsHeaderSize THEN 255
    ELSE IF j < totalEffectsHeaderSize + 2 THEN ByteAt(Wide(typeStatic), j % 2)
    ELSE IF j < totalEffectsHeaderSize + paramHeaderSize
    THEN ByteAt(Wide(driverColorCodesSize), j % 2)
    ELSE LET k == j - (totalEffectsHeaderSize + paramHeaderSize)
         IN  ByteAt(driverColorCodes[k \div 4 + 1], k % 4)

\* chunkSize bytes of the lighting buffer of a colour table from offset at,
\* as a tuple
RefLightChunk(driverColorCodes, at, chunkSize) ==
    [i \in 1..chunkSize |-> RefLightByte(driverColorCodes, at + i - 1)] \o <<>>

\* the n-th frame of the lit layer l; the colour table and the chunk are
\* bound so that they are computed once
RefLightFrame(km, l, n) ==
    LET layer == km.staticColorLayers[l]
        layerCode == layerCodes[layer.name].code
        at == maxChunkSize * (n - 2)
        chunkSize == Min(maxChunkSize, dataBufferSize - at)
        chunks == {RefLightChunk(codes, at, chunkSize) :
                       codes \in {driverColorCodesOf(km.colorDefinitions, layer.map)}}
    IN  IF n = 1
        THEN wipeoutLayerFrame(layerCode, KeyboardLayerDataType.Lighting).frame[1]
        ELSE CHOOSE frame \in
                 {CommandFrame(OpCodes.LayerSetLightValues, layerCode, Wide(at), chunkSize,
                               chunk, FALSE).frame[1] : chunk \in chunks} : TRUE

\* the n-th frame of the key layer l; the chunk is bound so that it is
\* computed once
RefKeyFrame(km, l, n) ==
    LET layer == km.keyLayers[l]
        info == layerCodes[layer.name]
        chunks == {FillKeyBuffer(Zeros(keyBufferSize), driverKeycodesOf(layer.map), 0,
                                 (keyBufferSize \div 4) * (n - 2))}
    IN  IF n = 1
        THEN wipeoutLayerFrame(info.code, IF info.isFnLayer
                                          THEN KeyboardLayerDataType.FnKeySet
                                          ELSE KeyboardLayerDataType.KeySet).frame[1]
        ELSE CHOOSE frame \in
                 {CommandFrame(IF info.isFnLayer THEN OpCodes.LayerFnSetKeyValues
                                                 ELSE OpCodes.LayerSetKeyValues,
                               info.code, Wide(keyBufferSize * (n - 2)),
                               filled.keyBufferCounter, filled.data \o <<>>,
                               TRUE).frame[1] : filled \in chunks} : TRUE

RECURSIVE RefKeys(_, _, _)
RefKeys(km, l, n) ==
    IF l > Len(km.keyLayers) THEN <<>>
    ELSE IF KeyNamesWrong(km.keyLayers[l].map)
            \/ km.keyLayers[l].name \notin DOMAIN layerCodes THEN <<>>
    ELSE IF n <= KeyFrames THEN RefKeyFrame(km, l, n)
    ELSE RefKeys(km, l + 1, n - KeyFrames)

RECURSIVE RefLights(_, _, _)
RefLights(km, l, n) ==
    IF l > Len(km.staticColorLayers) THEN RefKeys(km, 1, n)
    ELSE IF km.staticColorLayers[l].name \notin DOMAIN layerCodes THEN <<>>
    ELSE IF n <= LightFrames THEN RefLightFrame(km, l, n)
    ELSE RefLights(km, l + 1, n - LightFrames)

RefFrame(km, n) == RefLights(km, 1, n)

\* C20 as stated: whatever the device replies, the frames written during a
\* session are a prefix of the frames written in the run where every reply
\* matches: each frame written is the frame the reference run writes at the
\* same position; and once an error has propagated nothing more is written.
C20_PrefixOfReference ==
    /\ [][written' # written =>
            /\ Len(written') = Len(written) + 1
            /\ LastOf(written').frame = RefFrame(keymap, Len(written'))]_vars
    /\ [][err # "none" => written' = written]_vars

\* the lighting Reset Layer Data frames the reference run has written up to
\* the frames w and that w lacks: the first lighting chunks of a layer that
\* do not follow on the layer's reset
MissingResets(w) ==
    Cardinality({i \in 1..Len(w) :
        /\ FrameCmd(w[i]) = OpCodes.LayerSetLightValues
        /\ w[i].at = 0
        /\ ~(i > 1 /\ IsLightingReset(w[i - 1]) /\ w[i - 1].layer = w[i].layer)})

\* C20 amended: ... the frames written are, in order, frames of the
\* reference run from its start, without gaps except for lighting Reset
\* Layer Data frames whose write failed (setStaticColorLayers ignores the
\* failure and goes on to the lighting chunks): each frame written is the
\* frame the reference run writes at the same position, counting the
\* lighting resets that are missing; and once an error has propagated
\* nothing more is written.
C20_ReferenceButFailedResets ==
    /\ [][written' # written =>
            /\ Len(written') = Len(written) + 1
            /\ LastOf(written').frame =
                   RefFrame(keymap, Len(written') + MissingResets(written'))]_vars
    /\ [][err # "none" => written' = written]_vars

\* the lighting chunks were written although the write of the reset failed
C20_ChunksWithoutReset ==
    /\ written # <<>>
    /\ FrameCmd(written[1]) = OpCodes.LayerSetLightValues
    /\ Len(written) >= 2
    /\ written[2].at = 56
    /\ MissingResets(written) = 1

\* C21: hexdump / hexdump_iterlines terminates for every finite byte
\* buffer, yielding exactly ceil(len(data)/16) lines, the i-th (from 0)
\* labelled with address start + 16*i and showing bytes [16i, 16i+16): the
\* lines printed never outnumber ceil(len(data)/16), they are that many when
\* hexdump has returned, and each is the line of its address and bytes.
C21_HexdumpLines ==
    /\ Len(args.lines) <= CeilDiv(Len(data), 16)
    /\ pc = "done" => Len(args.lines) = CeilDiv(Len(data), 16)
    /\ \A i \in 1..Len(args.lines) :
          args.lines[i] = hexdump_iterlinesLine(data, args.start, 16 * (i - 1))

====
